---- MODULE Spec2Model ----
(***************************************************************************)
(* The PspCoin PSP-22 ledger of src/lib.rs as a state machine.             *)
(*                                                                         *)
(* The storage struct (total_supply, balances, allowances) is the state.   *)
(* Every #[ink(message)] that takes &mut self is an operator from the      *)
(* storage `self` it finds, the caller and the arguments to the storage it *)
(* leaves, the Result it returns and the events it emitted, computed as    *)
(* the Rust code computes them: statement by statement, with `return` and  *)
(* `?` leaving the handler at that point and keeping every write and every *)
(* emit_event made before it (the handlers hold no rollback code; the unit *)
(* tests of src/lib.rs call them directly on the struct in this way).  One *)
(* action per message applies that operator to the current storage.  The   *)
(* properties quantify over the calls that can be made in a reachable      *)
(* storage and speak of the outcome the handler computes there.            *)
(*                                                                         *)
(* u128 is scaled down to 0..u128_MAX.  Option<T> is a sequence of length  *)
(* at most one: Some(x) is <<x>>, None is <<>>.                            *)
(***************************************************************************)
EXTENDS Integers, Sequences, FiniteSets, TLC

\* ---------------------------------------------------------------- bounds
\* The largest value of the (scaled-down) quantity type u128.
u128_MAX == 2

\* Cap on the number of (owner, spender) pairs holding a non-zero allowance.
MaxAllowanceEntries == 1

\* ---------------------------------------------------------------- values
\* The accounts of ink::env::test::default_accounts() the tests use.
Address == {"alice", "bob", "charlie"}

u128 == 0..u128_MAX

\* Result<(), PSP22Error>
Ok == "Ok"
InsufficientBalance == "InsufficientBalance"
InsufficientAllowance == "InsufficientAllowance"
CustomOverflow == "Custom(Overflow)"
CustomAllowanceOverflow == "Custom(Allowance overflow)"
CustomBalanceOverflow == "Custom(Balance overflow)"
CustomMaxSupplyExceeded == "Custom(Max supply exceeded)"

Custom == {CustomOverflow, CustomAllowanceOverflow, CustomBalanceOverflow,
           CustomMaxSupplyExceeded}

PSP22Error == {InsufficientBalance, InsufficientAllowance} \cup Custom

None == <<>>

Some(x) == <<x>>

\* ---------------------------------------------------------------- events
Transfer(from, to, value) ==
    [event |-> "Transfer", from |-> from, to |-> to, value |-> value]

Approval(owner, spender, value) ==
    [event |-> "Approval", owner |-> owner, spender |-> spender, value |-> value]

\* --------------------------------------------------------------- helpers
checked_add(a, b) == IF a + b <= u128_MAX THEN Some(a + b) ELSE None

checked_sub(a, b) == IF a >= b THEN Some(a - b) ELSE None

\* Mapping::insert
insert(map, key, value) == [map EXCEPT ![key] = value]

\* The storage struct PspCoin.
PspCoin(ts, b, a) == [total_supply |-> ts, balances |-> b, allowances |-> a]

balance_of(self, owner) == self.balances[owner]

allowance(self, owner, spender) == self.allowances[<<owner, spender>>]

\* A handler left the storage `self`, returned r and emitted the events ev.
Outcome(self, r, ev) == [self |-> self, result |-> r, emitted |-> ev]

\* ---------------------------------------------------------- constructors
new == PspCoin(0, [a \in Address |-> 0], [p \in Address \X Address |-> 0])

new_with_supply(caller, initial_supply) ==
    PspCoin(initial_supply,
            insert([a \in Address |-> 0], caller, initial_supply),
            [p \in Address \X Address |-> 0])

\* -------------------------------------------------------------- messages
\* transfer without the write of line 126: the sender is never debited.
transfer_credits_only(self, caller, to, value) ==
    LET from == caller
        from_balance == balance_of(self, from)
        new_to_balance == checked_add(balance_of(self, to), value)
    IN  IF from = to \/ value = 0 THEN Outcome(self, Ok, <<>>)
        ELSE IF from_balance < value THEN Outcome(self, InsufficientBalance, <<>>)
        ELSE IF new_to_balance = None THEN Outcome(self, CustomOverflow, <<>>)
        ELSE Outcome([self EXCEPT !.balances = insert(@, to, new_to_balance[1])],
                     Ok,
                     <<Transfer(Some(from), Some(to), value)>>)

\* transfer with the test of line 106 reduced to `value == 0`.
transfer_without_self_check(self, caller, to, value) ==
    LET from == caller
        from_balance == balance_of(self, from)
        new_from_balance == checked_sub(from_balance, value)
        new_to_balance == checked_add(balance_of(self, to), value)
    IN  IF value = 0 THEN Outcome(self, Ok, <<>>)
        ELSE IF from_balance < value THEN Outcome(self, InsufficientBalance, <<>>)
        ELSE IF new_to_balance = None THEN Outcome(self, CustomOverflow, <<>>)
        ELSE Outcome(
                 [self EXCEPT !.balances =
                      insert(insert(@, from, new_from_balance[1]), to, new_to_balance[1])],
                 Ok,
                 <<Transfer(Some(from), Some(to), value)>>)

transfer(self, caller, to, value) ==
    LET from == caller
        from_balance == balance_of(self, from)
        new_from_balance == checked_sub(from_balance, value)
        to_balance == balance_of(self, to)
        new_to_balance == checked_add(to_balance, value)
    IN  IF from = to \/ value = 0 THEN Outcome(self, Ok, <<>>)
        ELSE IF from_balance < value THEN Outcome(self, InsufficientBalance, <<>>)
        ELSE IF new_from_balance = None THEN Outcome(self, InsufficientBalance, <<>>)
        ELSE IF new_to_balance = None THEN Outcome(self, CustomOverflow, <<>>)
        ELSE Outcome(
                 [self EXCEPT !.balances =
                      insert(insert(@, from, new_from_balance[1]), to, new_to_balance[1])],
                 Ok,
                 <<Transfer(Some(from), Some(to), value)>>)

\* Lines 176-202 of transfer_from with the Transfer event put before the events
\* already emitted.
transfer_from_balances_emits_first(self, from, to, value, ev) ==
    LET from_balance == balance_of(self, from)
        new_to_balance == checked_add(balance_of(self, to), value)
    IN  IF from_balance < value THEN Outcome(self, InsufficientBalance, ev)
        ELSE IF new_to_balance = None THEN Outcome(self, CustomOverflow, ev)
        ELSE Outcome(
                 [self EXCEPT !.balances =
                      insert(insert(@, from, from_balance - value), to, new_to_balance[1])],
                 Ok,
                 <<Transfer(Some(from), Some(to), value)>> \o ev)

\* Lines 176-202 of transfer_from: the balance check and the movement, entered
\* with the storage `self` and the events `ev` the allowance step left.
transfer_from_balances(self, from, to, value, ev) ==
    LET from_balance == balance_of(self, from)
        new_from_balance == checked_sub(from_balance, value)
        to_balance == balance_of(self, to)
        new_to_balance == checked_add(to_balance, value)
    IN  IF from_balance < value THEN Outcome(self, InsufficientBalance, ev)
        ELSE IF new_from_balance = None THEN Outcome(self, InsufficientBalance, ev)
        ELSE IF new_to_balance = None THEN Outcome(self, CustomOverflow, ev)
        ELSE Outcome(
                 [self EXCEPT !.balances =
                      insert(insert(@, from, new_from_balance[1]), to, new_to_balance[1])],
                 Ok,
                 Append(ev, Transfer(Some(from), Some(to), value)))

\* transfer_from with the balance check of lines 177-180 put before the
\* allowance check of lines 156-160.
transfer_from_checks_balance_first(self, caller, from, to, value) ==
    LET current_allowance == allowance(self, from, caller)
    IN  IF from = to \/ value = 0 THEN Outcome(self, Ok, <<>>)
        ELSE IF balance_of(self, from) < value
        THEN Outcome(self, InsufficientBalance, <<>>)
        ELSE IF caller # from
        THEN IF current_allowance < value
             THEN Outcome(self, InsufficientAllowance, <<>>)
             ELSE transfer_from_balances(
                      [self EXCEPT !.allowances =
                           insert(@, <<from, caller>>, current_allowance - value)],
                      from, to, value,
                      <<Approval(from, caller, current_allowance - value)>>)
        ELSE transfer_from_balances(self, from, to, value, <<>>)

\* transfer_from without the write of line 166: the allowance is checked but
\* never consumed.
transfer_from_keeps_allowance(self, caller, from, to, value) ==
    LET current_allowance == allowance(self, from, caller)
    IN  IF from = to \/ value = 0 THEN Outcome(self, Ok, <<>>)
        ELSE IF caller # from
        THEN IF current_allowance < value
             THEN Outcome(self, InsufficientAllowance, <<>>)
             ELSE transfer_from_balances(self, from, to, value,
                      <<Approval(from, caller, current_allowance - value)>>)
        ELSE transfer_from_balances(self, from, to, value, <<>>)

\* transfer_from with the test of line 151 moved behind the allowance check of
\* lines 156-160.
transfer_from_checks_allowance_first(self, caller, from, to, value) ==
    LET current_allowance == allowance(self, from, caller)
        new_allowance == checked_sub(current_allowance, value)
    IN  IF caller # from /\ current_allowance < value
        THEN Outcome(self, InsufficientAllowance, <<>>)
        ELSE IF from = to \/ value = 0 THEN Outcome(self, Ok, <<>>)
        ELSE IF caller # from
        THEN transfer_from_balances(
                 [self EXCEPT !.allowances =
                      insert(@, <<from, caller>>, new_allowance[1])],
                 from, to, value,
                 <<Approval(from, caller, new_allowance[1])>>)
        ELSE transfer_from_balances(self, from, to, value, <<>>)

\* transfer_from without the allowance block of lines 155-174: any caller moves
\* the balance of `from`.
transfer_from_without_allowance(self, caller, from, to, value) ==
    IF from = to \/ value = 0 THEN Outcome(self, Ok, <<>>)
    ELSE transfer_from_balances(self, from, to, value, <<>>)

transfer_from(self, caller, from, to, value) ==
    LET current_allowance == allowance(self, from, caller)
        new_allowance == checked_sub(current_allowance, value)
    IN  IF from = to \/ value = 0 THEN Outcome(self, Ok, <<>>)
        ELSE IF caller # from
        THEN IF current_allowance < value
             THEN Outcome(self, InsufficientAllowance, <<>>)
             ELSE IF new_allowance = None
             THEN Outcome(self, InsufficientAllowance, <<>>)
             ELSE transfer_from_balances(
                      [self EXCEPT !.allowances =
                           insert(@, <<from, caller>>, new_allowance[1])],
                      from, to, value,
                      <<Approval(from, caller, new_allowance[1])>>)
        ELSE transfer_from_balances(self, from, to, value, <<>>)

\* approve without the test of lines 211-213.
approve_without_self_check(self, caller, spender, value) ==
    LET owner == caller
    IN  Outcome([self EXCEPT !.allowances = insert(@, <<owner, spender>>, value)],
                Ok,
                <<Approval(owner, spender, value)>>)

\* approve adding `value` to the allowance where line 216 sets it.
approve_adds(self, caller, spender, value) ==
    LET owner == caller
        new_allowance == checked_add(allowance(self, owner, spender), value)
    IN  IF owner = spender THEN Outcome(self, Ok, <<>>)
        ELSE IF new_allowance = None
        THEN Outcome(self, CustomAllowanceOverflow, <<>>)
        ELSE Outcome(
                 [self EXCEPT !.allowances =
                      insert(@, <<owner, spender>>, new_allowance[1])],
                 Ok,
                 <<Approval(owner, spender, new_allowance[1])>>)

\* approve writing the entry of line 216 under the key (spender, owner): the
\* caller grants itself the spender's tokens.
approve_for_caller(self, caller, spender, value) ==
    LET owner == caller
    IN  IF owner = spender THEN Outcome(self, Ok, <<>>)
        ELSE Outcome(
                 [self EXCEPT !.allowances = insert(@, <<spender, owner>>, value)],
                 Ok,
                 <<Approval(spender, owner, value)>>)

approve(self, caller, spender, value) ==
    LET owner == caller
    IN  IF owner = spender THEN Outcome(self, Ok, <<>>)
        ELSE Outcome(
                 [self EXCEPT !.allowances = insert(@, <<owner, spender>>, value)],
                 Ok,
                 <<Approval(owner, spender, value)>>)

\* increase_allowance with saturating_add where lines 243-245 use checked_add.
increase_allowance_saturates(self, caller, spender, delta_value) ==
    LET owner == caller
        current_allowance == allowance(self, owner, spender)
        new_allowance == IF current_allowance + delta_value <= u128_MAX
                         THEN current_allowance + delta_value ELSE u128_MAX
    IN  IF owner = spender \/ delta_value = 0 THEN Outcome(self, Ok, <<>>)
        ELSE Outcome(
                 [self EXCEPT !.allowances = insert(@, <<owner, spender>>, new_allowance)],
                 Ok,
                 <<Approval(owner, spender, new_allowance)>>)

increase_allowance(self, caller, spender, delta_value) ==
    LET owner == caller
        current_allowance == allowance(self, owner, spender)
        new_allowance == checked_add(current_allowance, delta_value)
    IN  IF owner = spender \/ delta_value = 0 THEN Outcome(self, Ok, <<>>)
        ELSE IF new_allowance = None
        THEN Outcome(self, CustomAllowanceOverflow, <<>>)
        ELSE Outcome(
                 [self EXCEPT !.allowances =
                      insert(@, <<owner, spender>>, new_allowance[1])],
                 Ok,
                 <<Approval(owner, spender, new_allowance[1])>>)

\* decrease_allowance emitting the allowance it found where line 288 emits the
\* new one.
decrease_allowance_emits_old(self, caller, spender, delta_value) ==
    LET owner == caller
        current_allowance == allowance(self, owner, spender)
    IN  IF owner = spender \/ delta_value = 0 THEN Outcome(self, Ok, <<>>)
        ELSE IF current_allowance < delta_value
        THEN Outcome(self, InsufficientAllowance, <<>>)
        ELSE Outcome(
                 [self EXCEPT !.allowances =
                      insert(@, <<owner, spender>>, current_allowance - delta_value)],
                 Ok,
                 <<Approval(owner, spender, current_allowance)>>)

\* decrease_allowance with `<=` where line 274 has `<`.
decrease_allowance_refuses_all(self, caller, spender, delta_value) ==
    LET owner == caller
        current_allowance == allowance(self, owner, spender)
    IN  IF owner = spender \/ delta_value = 0 THEN Outcome(self, Ok, <<>>)
        ELSE IF current_allowance <= delta_value
        THEN Outcome(self, InsufficientAllowance, <<>>)
        ELSE Outcome(
                 [self EXCEPT !.allowances =
                      insert(@, <<owner, spender>>, current_allowance - delta_value)],
                 Ok,
                 <<Approval(owner, spender, current_allowance - delta_value)>>)

decrease_allowance(self, caller, spender, delta_value) ==
    LET owner == caller
        current_allowance == allowance(self, owner, spender)
        new_allowance == checked_sub(current_allowance, delta_value)
    IN  IF owner = spender \/ delta_value = 0 THEN Outcome(self, Ok, <<>>)
        ELSE IF current_allowance < delta_value
        THEN Outcome(self, InsufficientAllowance, <<>>)
        ELSE IF new_allowance = None THEN Outcome(self, InsufficientAllowance, <<>>)
        ELSE Outcome(
                 [self EXCEPT !.allowances =
                      insert(@, <<owner, spender>>, new_allowance[1])],
                 Ok,
                 <<Approval(owner, spender, new_allowance[1])>>)

mint(self, caller, value) ==
    LET current_balance == balance_of(self, caller)
        new_balance == checked_add(current_balance, value)
        \* line 328: the balance is written before the supply is computed
        credited == [self EXCEPT !.balances = insert(@, caller, new_balance[1])]
        new_supply == checked_add(self.total_supply, value)
    IN  IF value = 0 THEN Outcome(self, Ok, <<>>)
        ELSE IF new_balance = None THEN Outcome(self, CustomBalanceOverflow, <<>>)
        ELSE IF new_supply = None
        THEN Outcome(credited, CustomMaxSupplyExceeded, <<>>)
        ELSE Outcome([credited EXCEPT !.total_supply = new_supply[1]],
                     Ok,
                     <<Transfer(None, Some(caller), value)>>)

\* burn without the write of lines 369-371: the supply is never lowered.
burn_keeps_supply(self, caller, value) ==
    LET current_balance == balance_of(self, caller)
    IN  IF value = 0 THEN Outcome(self, Ok, <<>>)
        ELSE IF current_balance < value THEN Outcome(self, InsufficientBalance, <<>>)
        ELSE Outcome(
                 [self EXCEPT !.balances = insert(@, caller, current_balance - value)],
                 Ok,
                 <<Transfer(Some(caller), None, value)>>)

burn(self, caller, value) ==
    LET current_balance == balance_of(self, caller)
        new_balance == checked_sub(current_balance, value)
        \* line 366: the balance is written before the supply is computed
        debited == [self EXCEPT !.balances = insert(@, caller, new_balance[1])]
        new_supply == checked_sub(self.total_supply, value)
    IN  IF value = 0 THEN Outcome(self, Ok, <<>>)
        ELSE IF current_balance < value THEN Outcome(self, InsufficientBalance, <<>>)
        ELSE IF new_balance = None THEN Outcome(self, InsufficientBalance, <<>>)
        ELSE IF new_supply = None THEN Outcome(debited, InsufficientBalance, <<>>)
        ELSE Outcome([debited EXCEPT !.total_supply = new_supply[1]],
                     Ok,
                     <<Transfer(Some(caller), None, value)>>)

\* ----------------------------------------------------------------- state
VARIABLES
    total_supply,   \* PspCoin.total_supply
    balances,       \* PspCoin.balances, an absent key read as 0
    allowances      \* PspCoin.allowances, an absent key read as 0

vars == <<total_supply, balances, allowances>>

\* The current storage.
this == PspCoin(total_supply, balances, allowances)

AllowanceEntries(a) == {p \in DOMAIN a : a[p] # 0}

Sum(f, S) ==
    LET RECURSIVE Add(_)
        Add(T) == IF T = {} THEN 0
                  ELSE LET x == CHOOSE y \in T : TRUE IN f[x] + Add(T \ {x})
    IN Add(S)

Init ==
    /\ \E self \in {new} \cup {new_with_supply(caller, initial_supply) :
                                  caller \in Address, initial_supply \in u128} :
           /\ total_supply = self.total_supply
           /\ balances = self.balances
           /\ allowances = self.allowances

\* A message ran on the current storage with outcome `out`: the storage it left
\* is the contract's storage from now on, whatever it returned.
Call(out) ==
    /\ total_supply' = out.self.total_supply
    /\ balances' = out.self.balances
    /\ allowances' = out.self.allowances
    /\ Cardinality(AllowanceEntries(allowances')) <= MaxAllowanceEntries

\* One action per #[ink(message)] that takes &mut self.
Do_transfer(caller, to, value) == Call(transfer(this, caller, to, value))

Do_transfer_from(caller, from, to, value) ==
    Call(transfer_from(this, caller, from, to, value))

Do_approve(caller, spender, value) == Call(approve(this, caller, spender, value))

Do_increase_allowance(caller, spender, delta_value) ==
    Call(increase_allowance(this, caller, spender, delta_value))

Do_decrease_allowance(caller, spender, delta_value) ==
    Call(decrease_allowance(this, caller, spender, delta_value))

Do_mint(caller, value) == Call(mint(this, caller, value))

Do_burn(caller, value) == Call(burn(this, caller, value))

Next ==
    \/ \E caller \in Address, to \in Address, value \in u128 :
           Do_transfer(caller, to, value)
    \/ \E caller \in Address, from \in Address, to \in Address, value \in u128 :
           Do_transfer_from(caller, from, to, value)
    \/ \E caller \in Address, spender \in Address, value \in u128 :
           Do_approve(caller, spender, value)
    \/ \E caller \in Address, spender \in Address, delta_value \in u128 :
           Do_increase_allowance(caller, spender, delta_value)
    \/ \E caller \in Address, spender \in Address, delta_value \in u128 :
           Do_decrease_allowance(caller, spender, delta_value)
    \/ \E caller \in Address, value \in u128 : Do_mint(caller, value)
    \/ \E caller \in Address, value \in u128 : Do_burn(caller, value)

Spec == Init /\ [][Next]_vars

\* The contract deployed with new(): every storage new_with_supply(N) builds is
\* reached from it by the caller's mint(N).
InitNew ==
    /\ total_supply = new.total_supply
    /\ balances = new.balances
    /\ allowances = new.allowances

SpecNew == InitNew /\ [][Next]_vars

\* The contract deployed with new_with_supply(N) by any caller: N = 0 builds
\* the storage of new().
InitWithSupply ==
    \E caller \in Address, initial_supply \in u128 :
        LET self == new_with_supply(caller, initial_supply)
        IN  /\ total_supply = self.total_supply
            /\ balances = self.balances
            /\ allowances = self.allowances

SpecWithSupply == InitWithSupply /\ [][Next]_vars

\* ------------------------------------------------------------ properties
\* The handler left the storage as it found it and emitted nothing.
Untouched(self, out) == out.self = self /\ out.emitted = <<>>

\* The balances of `out` are those of `self` with `value` moved from `from` to `to`.
Moved(self, out, from, to, value) ==
    /\ balance_of(out.self, from) = balance_of(self, from) - value
    /\ balance_of(out.self, to) = balance_of(self, to) + value
    /\ \A a \in Address \ {from, to} : balance_of(out.self, a) = balance_of(self, a)
    /\ out.self.total_supply = self.total_supply

\* C1: in every reachable state, total_supply is the sum of all balances.
C1_SupplyIsSumOfBalances == total_supply = Sum(balances, Address)

FailsCleanly(self, out) == out.result # Ok => Untouched(self, out)

\* C2: whenever a mutating message returns an error, the storage is what it was
\* before the call and the call emitted no event.
C2_ErrorsLeaveNoTrace ==
    \A caller \in Address, a \in Address, b \in Address, v \in u128 :
        /\ FailsCleanly(this, transfer(this, caller, a, v))
        /\ FailsCleanly(this, transfer_from(this, caller, a, b, v))
        /\ FailsCleanly(this, approve(this, caller, a, v))
        /\ FailsCleanly(this, increase_allowance(this, caller, a, v))
        /\ FailsCleanly(this, decrease_allowance(this, caller, a, v))
        /\ FailsCleanly(this, mint(this, caller, v))
        /\ FailsCleanly(this, burn(this, caller, v))

\* C3: transfer_from by caller # from, from # to, value > 0 either decrements
\* the allowance by value and moves value, or changes neither an allowance nor
\* a balance; with a sufficient allowance and an insufficient balance it fails
\* with InsufficientBalance and leaves the allowance as it was.
C3_TransferFromAllOrNothing ==
    \A caller \in Address, from \in Address, to \in Address, value \in u128 :
        (caller # from /\ from # to /\ value > 0) =>
            LET out == transfer_from(this, caller, from, to, value)
            IN  /\ \/ /\ allowance(out.self, from, caller)
                            = allowance(this, from, caller) - value
                      /\ Moved(this, out, from, to, value)
                   \/ /\ out.self.allowances = allowances
                      /\ out.self.balances = balances
                /\ (allowance(this, from, caller) >= value
                        /\ balance_of(this, from) < value) =>
                       /\ out.result = InsufficientBalance
                       /\ allowance(out.self, from, caller)
                              = allowance(this, from, caller)

\* C4: a successful transfer(a, b, v) with a # b and v > 0 takes exactly v from
\* a, gives exactly v to b and changes no other balance, no allowance and not
\* total_supply.
C4_TransferConserves ==
    \A a \in Address, b \in Address, v \in u128 :
        LET out == transfer(this, a, b, v)
        IN  (a # b /\ v > 0 /\ out.result = Ok) =>
                /\ Moved(this, out, a, b, v)
                /\ out.self.allowances = allowances

\* A storage where a transfer that moves value succeeds while a third account
\* holds a balance and an allowance is set.
C4_Witness ==
    \E a \in Address, b \in Address, v \in u128 :
        /\ a # b /\ v > 0
        /\ transfer(this, a, b, v).result = Ok
        /\ transfer(this, a, b, v).self.balances # balances
        /\ \E c \in Address \ {a, b} : balance_of(this, c) > 0
        /\ AllowanceEntries(allowances) # {}

\* C5: with B the caller's balance and `to` another account, transfer of any
\* value above B fails with InsufficientBalance and touches nothing; transfer
\* of exactly B > 0 succeeds and leaves the caller at 0.
C5_TransferBoundary ==
    \A caller \in Address, to \in Address, value \in u128 :
        LET B == balance_of(this, caller)
            out == transfer(this, caller, to, value)
        IN  caller # to =>
                /\ value > B =>
                       out.result = InsufficientBalance /\ Untouched(this, out)
                /\ (value = B /\ B > 0) =>
                       out.result = Ok /\ balance_of(out.self, caller) = 0

\* C6: transfer_from by caller # from, from # to, value > 0 fails with
\* InsufficientAllowance when the allowance is below value; when it succeeds
\* the allowance went down by exactly value and value moved from `from` to
\* `to`, total_supply unchanged.
C6_TransferFromSpends ==
    \A caller \in Address, from \in Address, to \in Address, value \in u128 :
        (caller # from /\ from # to /\ value > 0) =>
            LET out == transfer_from(this, caller, from, to, value)
            IN  /\ allowance(this, from, caller) < value =>
                       out.result = InsufficientAllowance
                /\ out.result = Ok =>
                       /\ allowance(out.self, from, caller)
                              = allowance(this, from, caller) - value
                       /\ Moved(this, out, from, to, value)

\* A storage where a spender moves part of an owner's balance to a third
\* account within the allowance, and where a larger delegated transfer is
\* refused for want of allowance.
C6_Witness ==
    \E caller \in Address, from \in Address, to \in Address, value \in u128 :
        /\ Cardinality({caller, from, to}) = 3 /\ value > 0
        /\ transfer_from(this, caller, from, to, value).result = Ok
        /\ allowance(this, from, caller) > value
        /\ value + 1 \in u128
        /\ transfer_from(this, caller, from, to, value + 1).result = Ok
        /\ transfer_from(this, caller, to, from, value).result = InsufficientAllowance

\* C7: transfer_from with caller = from, from # to, value > 0 and a sufficient
\* balance succeeds, moves value as transfer does, leaves every allowance as it
\* was and emits no Approval.
C7_SelfTransferFrom ==
    \A from \in Address, to \in Address, value \in u128 :
        (from # to /\ value > 0 /\ balance_of(this, from) >= value) =>
            LET out == transfer_from(this, from, from, to, value)
            IN  /\ out.result = Ok
                /\ Moved(this, out, from, to, value)
                /\ out.self.allowances = allowances
                /\ \A i \in DOMAIN out.emitted : out.emitted[i].event # "Approval"

\* C8: transfer(x, x, v) for any v and transfer(x, y, 0) for any y return Ok,
\* change nothing and emit nothing.
C8_TransferNoOps ==
    \A x \in Address, y \in Address, v \in u128 :
        /\ transfer(this, x, x, v).result = Ok
        /\ Untouched(this, transfer(this, x, x, v))
        /\ transfer(this, x, y, 0).result = Ok
        /\ Untouched(this, transfer(this, x, y, 0))

\* A storage where two accounts hold a balance and one of them asks for a
\* transfer to itself of more than it holds, for one of all it holds, and for
\* a transfer of 0 to the other.
C8_Witness ==
    \E x \in Address, y \in Address, v \in u128 :
        /\ x # y /\ balance_of(this, y) > 0
        /\ 0 < balance_of(this, x) /\ balance_of(this, x) < v
        /\ transfer(this, x, x, v).result = Ok
        /\ transfer(this, x, x, balance_of(this, x)).result = Ok
        /\ transfer(this, x, y, 0).result = Ok

\* C9: transfer_from with from = to or value = 0 returns Ok, changes nothing
\* and emits nothing, for every caller, whatever the allowance and the balance.
C9_TransferFromNoOps ==
    \A caller \in Address, from \in Address, to \in Address, value \in u128 :
        (from = to \/ value = 0) =>
            LET out == transfer_from(this, caller, from, to, value)
            IN  out.result = Ok /\ Untouched(this, out)

\* A storage where a caller without allowance asks for a transfer from an
\* account to itself of more than the account holds, and a caller with an
\* allowance asks for one within the allowance and the balance.
C9_Witness ==
    \E caller \in Address, from \in Address, value \in u128 :
        /\ caller # from /\ value > 0
        /\ allowance(this, from, caller) = 0
        /\ balance_of(this, from) < value
        /\ transfer_from(this, caller, from, from, value).result = Ok
        /\ \E spender \in Address \ {from}, v \in u128 :
               /\ v > 0
               /\ allowance(this, from, spender) >= v
               /\ balance_of(this, from) >= v
               /\ transfer_from(this, spender, from, from, v).result = Ok

\* C10: approve(caller, spender, V) with caller # spender succeeds whatever the
\* balance and the previous allowance, sets allowance(caller, spender) to V and
\* changes no balance, no other allowance and not total_supply.
C10_ApproveSets ==
    \A caller \in Address, spender \in Address, V \in u128 :
        caller # spender =>
            LET out == approve(this, caller, spender, V)
            IN  /\ out.result = Ok
                /\ allowance(out.self, caller, spender) = V
                /\ \A p \in (Address \X Address) \ {<<caller, spender>>} :
                       out.self.allowances[p] = allowances[p]
                /\ out.self.balances = balances
                /\ out.self.total_supply = total_supply

\* A storage where an owner without balance replaces a non-zero allowance by a
\* different non-zero one.
C10_Witness ==
    \E caller \in Address, spender \in Address, V \in u128 :
        /\ caller # spender
        /\ balance_of(this, caller) = 0
        /\ allowance(this, caller, spender) > 0
        /\ V > 0 /\ V # allowance(this, caller, spender)
        /\ approve(this, caller, spender, V).result = Ok
        /\ allowance(approve(this, caller, spender, V).self, caller, spender) = V

\* C11: for owner # spender, an increase_allowance by delta that succeeds,
\* followed at once by decrease_allowance by the same delta, is followed by a
\* success, and the allowance is what it was before the increase.
C11_IncreaseThenDecrease ==
    \A owner \in Address, spender \in Address, delta \in u128 :
        LET inc == increase_allowance(this, owner, spender, delta)
            dec == decrease_allowance(inc.self, owner, spender, delta)
        IN  (owner # spender /\ inc.result = Ok) =>
                /\ dec.result = Ok
                /\ allowance(dec.self, owner, spender) = allowance(this, owner, spender)

\* A storage where a non-zero allowance is raised by a non-zero delta and
\* lowered again.
C11_Witness ==
    \E owner \in Address, spender \in Address, delta \in u128 :
        LET inc == increase_allowance(this, owner, spender, delta)
        IN  /\ owner # spender /\ delta > 0
            /\ allowance(this, owner, spender) > 0
            /\ inc.result = Ok
            /\ allowance(inc.self, owner, spender) # allowance(this, owner, spender)
            /\ decrease_allowance(inc.self, owner, spender, delta).result = Ok

\* C12: for caller # spender and delta > 0, with current the allowance:
\* increase_allowance fails with the overflow error exactly when current + delta
\* is above the maximum and otherwise sets current + delta; decrease_allowance
\* fails with InsufficientAllowance exactly when current < delta and otherwise
\* sets current - delta.
C12_AllowanceDeltas ==
    \A caller \in Address, spender \in Address, delta \in u128 :
        (caller # spender /\ delta > 0) =>
            LET current == allowance(this, caller, spender)
                inc == increase_allowance(this, caller, spender, delta)
                dec == decrease_allowance(this, caller, spender, delta)
            IN  /\ IF current + delta > u128_MAX
                   THEN /\ inc.result = CustomAllowanceOverflow
                        /\ allowance(inc.self, caller, spender) = current
                   ELSE /\ inc.result = Ok
                        /\ allowance(inc.self, caller, spender) = current + delta
                /\ IF current < delta
                   THEN /\ dec.result = InsufficientAllowance
                        /\ allowance(dec.self, caller, spender) = current
                   ELSE /\ dec.result = Ok
                        /\ allowance(dec.self, caller, spender) = current - delta

\* A storage where an increase overflows while a smaller one fits, and a
\* decrease is refused while a smaller one is granted.
C12_Witness ==
    \E caller \in Address, spender \in Address, d1 \in u128, d2 \in u128 :
        /\ caller # spender /\ 0 < d1 /\ d1 < d2
        /\ increase_allowance(this, caller, spender, d2).result = CustomAllowanceOverflow
        /\ increase_allowance(this, caller, spender, d1).result = Ok
        /\ decrease_allowance(this, caller, spender, d2).result = InsufficientAllowance
        /\ decrease_allowance(this, caller, spender, d1).result = Ok

\* C13: mint(caller, v) with v > 0 fails with the overflow error exactly when
\* balance_of(caller) + v or total_supply + v is above the maximum, and then
\* changes neither the caller's balance nor total_supply; otherwise it succeeds
\* and raises both by exactly v, every other balance and every allowance
\* unchanged.  mint(caller, 0) succeeds and changes nothing.
C13_MintChecked ==
    \A caller \in Address, v \in u128 :
        LET out == mint(this, caller, v)
            overflows == \/ balance_of(this, caller) + v > u128_MAX
                         \/ total_supply + v > u128_MAX
        IN  IF v = 0 THEN out.result = Ok /\ Untouched(this, out)
            ELSE IF overflows
            THEN /\ out.result \in Custom
                 /\ balance_of(out.self, caller) = balance_of(this, caller)
                 /\ out.self.total_supply = total_supply
            ELSE /\ out.result = Ok
                 /\ balance_of(out.self, caller) = balance_of(this, caller) + v
                 /\ out.self.total_supply = total_supply + v
                 /\ \A a \in Address \ {caller} :
                        balance_of(out.self, a) = balance_of(this, a)
                 /\ out.self.allowances = allowances

\* C14: burn(caller, v) with v > 0 fails, with InsufficientBalance, if and only
\* if balance_of(caller) < v; when it does not fail, the caller's balance and
\* total_supply both go down by exactly v.  burn(caller, 0) succeeds and changes
\* nothing.
C14_BurnFailsOnlyOnBalance ==
    \A caller \in Address, v \in u128 :
        LET out == burn(this, caller, v)
        IN  IF v = 0 THEN out.result = Ok /\ Untouched(this, out)
            ELSE IF balance_of(this, caller) < v
            THEN out.result = InsufficientBalance
            ELSE /\ out.result = Ok
                 /\ balance_of(out.self, caller) = balance_of(this, caller) - v
                 /\ out.self.total_supply = total_supply - v

\* C15: a mint(c, v) that succeeds, followed at once by burn(c, v), is followed
\* by a success, and balance_of(c) and total_supply are what they were before
\* the mint.
C15_MintThenBurn ==
    \A c \in Address, v \in u128 :
        LET minted == mint(this, c, v)
            burnt == burn(minted.self, c, v)
        IN  minted.result = Ok =>
                /\ burnt.result = Ok
                /\ balance_of(burnt.self, c) = balance_of(this, c)
                /\ burnt.self.total_supply = total_supply

\* A storage where the caller holds a balance, a mint of a non-zero value
\* succeeds and the burn after it does too.
C15_Witness ==
    \E c \in Address, v \in u128 :
        LET minted == mint(this, c, v)
        IN  /\ v > 0 /\ balance_of(this, c) > 0
            /\ minted.result = Ok
            /\ minted.self.total_supply = total_supply + v
            /\ burn(minted.self, c, v).result = Ok

\* C16: in no reachable state does transfer or transfer_from return the
\* overflow error.
C16_TransferNeverOverflows ==
    \A caller \in Address, from \in Address, to \in Address, value \in u128 :
        /\ transfer(this, caller, to, value).result \notin Custom
        /\ transfer_from(this, caller, from, to, value).result \notin Custom

\* ev is one Approval event for (owner, spender) and nothing else.
OneApproval(ev, owner, spender) ==
    /\ Len(ev) = 1
    /\ ev[1].event = "Approval"
    /\ ev[1].owner = owner /\ ev[1].spender = spender

\* C17: a successful call emits exactly these events: transfer one
\* Transfer(caller, to, value); mint one Transfer(absent, caller, value); burn
\* one Transfer(caller, absent, value); approve, increase_allowance and
\* decrease_allowance one Approval each; transfer_from by caller # from one
\* Approval, then one Transfer(from, to, value), and by caller = from the
\* Transfer alone.  A no-op emits nothing.
C17_EventsOfSuccess ==
    /\ \A caller \in Address, v \in u128 :
           /\ LET out == mint(this, caller, v)
              IN  out.result = Ok =>
                      out.emitted = IF v = 0 THEN <<>>
                                    ELSE <<Transfer(None, Some(caller), v)>>
           /\ LET out == burn(this, caller, v)
              IN  out.result = Ok =>
                      out.emitted = IF v = 0 THEN <<>>
                                    ELSE <<Transfer(Some(caller), None, v)>>
    /\ \A caller \in Address, a \in Address, v \in u128 :
           /\ LET out == transfer(this, caller, a, v)
              IN  out.result = Ok =>
                      out.emitted = IF caller = a \/ v = 0 THEN <<>>
                                    ELSE <<Transfer(Some(caller), Some(a), v)>>
           /\ LET out == approve(this, caller, a, v)
              IN  out.result = Ok =>
                      IF caller = a THEN out.emitted = <<>>
                      ELSE OneApproval(out.emitted, caller, a)
           /\ LET out == increase_allowance(this, caller, a, v)
              IN  out.result = Ok =>
                      IF caller = a \/ v = 0 THEN out.emitted = <<>>
                      ELSE OneApproval(out.emitted, caller, a)
           /\ LET out == decrease_allowance(this, caller, a, v)
              IN  out.result = Ok =>
                      IF caller = a \/ v = 0 THEN out.emitted = <<>>
                      ELSE OneApproval(out.emitted, caller, a)
    /\ \A caller \in Address, a \in Address, b \in Address, v \in u128 :
           LET out == transfer_from(this, caller, a, b, v)
           IN  out.result = Ok =>
                   IF a = b \/ v = 0 THEN out.emitted = <<>>
                   ELSE IF caller = a
                   THEN out.emitted = <<Transfer(Some(a), Some(b), v)>>
                   ELSE /\ Len(out.emitted) = 2
                        /\ OneApproval(<<out.emitted[1]>>, a, caller)
                        /\ out.emitted[2] = Transfer(Some(a), Some(b), v)

\* A storage where a spender's transfer_from succeeds with an Approval and a
\* Transfer, the owner's own transfer_from with the Transfer alone, and a mint
\* and a burn succeed.
C17_Witness ==
    \E caller \in Address, from \in Address, to \in Address, v \in u128 :
        /\ caller # from /\ from # to /\ v > 0
        /\ transfer_from(this, caller, from, to, v).result = Ok
        /\ Len(transfer_from(this, caller, from, to, v).emitted) = 2
        /\ transfer_from(this, from, from, to, v).result = Ok
        /\ Len(transfer_from(this, from, from, to, v).emitted) = 1
        /\ mint(this, caller, v).result = Ok
        /\ burn(this, from, v).result = Ok

\* The places of the Approval events for the pair p among the events ev.
ApprovalsOf(ev, p) ==
    {i \in DOMAIN ev : /\ ev[i].event = "Approval"
                       /\ <<ev[i].owner, ev[i].spender>> = p}

Last(S) == CHOOSE i \in S : \A j \in S : j <= i

\* Whatever the handler returned: the allowances it left are those it found,
\* except for the pairs it emitted an Approval for, whose allowance is the value
\* of the last such Approval.  So every Approval that is the latest of its pair
\* carries the pair's allowance, and no allowance changed without an Approval.
ApprovalsTellAllowances(self, out) ==
    IF \A i \in DOMAIN out.emitted : out.emitted[i].event # "Approval"
    THEN out.self.allowances = self.allowances
    ELSE out.self.allowances =
             [p \in Address \X Address |->
                 LET at == ApprovalsOf(out.emitted, p)
                 IN  IF at = {} THEN self.allowances[p]
                     ELSE out.emitted[Last(at)].value]

\* C18: every Approval carries the allowance the call leaves for its pair, and
\* no call changes an allowance without emitting an Approval for that pair; so
\* the most recent Approval of a pair always carries its current allowance.
C18_ApprovalCarriesAllowance ==
    /\ \A caller \in Address, v \in u128 :
           /\ ApprovalsTellAllowances(this, mint(this, caller, v))
           /\ ApprovalsTellAllowances(this, burn(this, caller, v))
    /\ \A caller \in Address, a \in Address, v \in u128 :
           /\ ApprovalsTellAllowances(this, transfer(this, caller, a, v))
           /\ ApprovalsTellAllowances(this, approve(this, caller, a, v))
           /\ ApprovalsTellAllowances(this, increase_allowance(this, caller, a, v))
           /\ ApprovalsTellAllowances(this, decrease_allowance(this, caller, a, v))
    /\ \A caller \in Address, a \in Address, b \in Address, v \in u128 :
           ApprovalsTellAllowances(this, transfer_from(this, caller, a, b, v))

\* A storage where a decrease_allowance lowers a non-zero allowance to a
\* non-zero one, and where a spender's transfer_from lowers the allowance and
\* then fails for want of balance.
C18_Witness ==
    \E owner \in Address, spender \in Address, to \in Address, v \in u128 :
        /\ owner # spender /\ owner # to /\ v > 0
        /\ allowance(this, owner, spender) > v
        /\ decrease_allowance(this, owner, spender, v).result = Ok
        /\ decrease_allowance(this, owner, spender, v).emitted
               = <<Approval(owner, spender, allowance(this, owner, spender) - v)>>
        /\ transfer_from(this, spender, owner, to, v).result = InsufficientBalance
        /\ transfer_from(this, spender, owner, to, v).emitted # <<>>

\* C19: transfer_from checks the no-op, then the allowance, then the balance:
\* for caller # from, from # to, value > 0, with both the allowance and the
\* balance below value it returns InsufficientAllowance; it returns
\* InsufficientBalance only when the allowance check has passed or caller = from.
C19_TransferFromOrder ==
    \A caller \in Address, from \in Address, to \in Address, value \in u128 :
        LET out == transfer_from(this, caller, from, to, value)
        IN  /\ (from = to \/ value = 0) => out.result = Ok
            /\ (/\ caller # from /\ from # to /\ value > 0
                /\ allowance(this, from, caller) < value
                /\ balance_of(this, from) < value) =>
                   out.result = InsufficientAllowance
            /\ out.result = InsufficientBalance =>
                   \/ caller = from
                   \/ allowance(this, from, caller) >= value

\* A storage where one spender lacks both allowance and balance of the owner,
\* another has the allowance but the owner lacks the balance, and the owner
\* itself is refused for want of balance.
C19_Witness ==
    \E c1 \in Address, c2 \in Address, from \in Address, to \in Address, value \in u128 :
        /\ c1 # from /\ c2 # from /\ from # to /\ value > 0
        /\ allowance(this, from, c1) < value
        /\ balance_of(this, from) < value
        /\ transfer_from(this, c1, from, to, value).result = InsufficientAllowance
        /\ allowance(this, from, c2) >= value
        /\ transfer_from(this, c2, from, to, value).result = InsufficientBalance
        /\ transfer_from(this, from, from, to, value).result = InsufficientBalance

\* C20: allowance(a, a) = 0 for every account a in every reachable state;
\* approve, increase_allowance and decrease_allowance with caller = spender
\* return Ok, change nothing and emit nothing, and transfer_from with
\* caller = from writes no allowance.
C20_NoSelfAllowance ==
    \A a \in Address :
        /\ allowance(this, a, a) = 0
        /\ \A v \in u128 :
               /\ approve(this, a, a, v).result = Ok
               /\ Untouched(this, approve(this, a, a, v))
               /\ increase_allowance(this, a, a, v).result = Ok
               /\ Untouched(this, increase_allowance(this, a, a, v))
               /\ decrease_allowance(this, a, a, v).result = Ok
               /\ Untouched(this, decrease_allowance(this, a, a, v))
               /\ \A to \in Address :
                      transfer_from(this, a, a, to, v).self.allowances = allowances

\* A storage where an account that has granted an allowance and holds a
\* balance moves value by transfer_from in its own name.
C20_Witness ==
    \E a \in Address, to \in Address, v \in u128 :
        /\ a # to /\ v > 0
        /\ \E s \in Address \ {a} : allowance(this, a, s) > 0
        /\ approve(this, a, a, v).result = Ok
        /\ increase_allowance(this, a, a, v).result = Ok
        /\ decrease_allowance(this, a, a, v).result = Ok
        /\ transfer_from(this, a, a, to, v).result = Ok
        /\ transfer_from(this, a, a, to, v).self.balances # balances

\* The accounts whose balance the call with outcome `out` has lowered.
Debited(self, out) ==
    IF out.self.balances = self.balances THEN {}
    ELSE {a \in Address : balance_of(out.self, a) < balance_of(self, a)}

\* C21: in any single step, failing ones included, balance_of(a) decreases only
\* if the caller is a (transfer, burn, or transfer_from with from = a = caller),
\* or the step is transfer_from(from = a) by a caller c # a whose
\* allowance(a, c) before the step was at least the amount of the decrease;
\* mint, approve, increase_allowance and decrease_allowance lower no balance.
C21_DebitsAuthorized ==
    /\ \A caller \in Address, v \in u128 :
           /\ Debited(this, mint(this, caller, v)) = {}
           /\ Debited(this, burn(this, caller, v)) \subseteq {caller}
    /\ \A caller \in Address, a \in Address, v \in u128 :
           /\ Debited(this, transfer(this, caller, a, v)) \subseteq {caller}
           /\ Debited(this, approve(this, caller, a, v)) = {}
           /\ Debited(this, increase_allowance(this, caller, a, v)) = {}
           /\ Debited(this, decrease_allowance(this, caller, a, v)) = {}
    /\ \A caller \in Address, from \in Address, to \in Address, v \in u128 :
           LET out == transfer_from(this, caller, from, to, v)
           IN  /\ Debited(this, out) \subseteq {from}
               /\ (from \in Debited(this, out) /\ caller # from) =>
                      allowance(this, from, caller) >=
                          balance_of(this, from) - balance_of(out.self, from)

\* A storage where a spender with an allowance lowers the owner's balance by
\* transfer_from, a third party without allowance is refused with the balance
\* as it was, and the owner lowers it by transfer and by burn.
C21_Witness ==
    \E a \in Address, c \in Address, d \in Address, to \in Address, v \in u128 :
        /\ c # a /\ d # a /\ d # c /\ to # a /\ v > 0
        /\ allowance(this, a, c) >= v
        /\ allowance(this, a, d) < v
        /\ transfer_from(this, c, a, to, v).result = Ok
        /\ Debited(this, transfer_from(this, c, a, to, v)) = {a}
        /\ transfer_from(this, d, a, to, v).result = InsufficientAllowance
        /\ Debited(this, transfer_from(this, d, a, to, v)) = {}
        /\ Debited(this, transfer(this, a, to, v)) = {a}
        /\ Debited(this, burn(this, a, v)) = {a}

\* The (owner, spender) pairs whose allowance the call with outcome `out` has
\* raised.
Raised(self, out) ==
    IF out.self.allowances = self.allowances THEN {}
    ELSE {p \in Address \X Address : out.self.allowances[p] > self.allowances[p]}

\* C22: in any single step, failing ones included, allowance(o, s) increases
\* only if the step is approve or increase_allowance called by o for s; every
\* other step, also one called by s, leaves it unchanged or lowers it.
C22_AllowanceRaisesAuthorized ==
    /\ \A caller \in Address, v \in u128 :
           /\ Raised(this, mint(this, caller, v)) = {}
           /\ Raised(this, burn(this, caller, v)) = {}
    /\ \A caller \in Address, a \in Address, v \in u128 :
           /\ Raised(this, approve(this, caller, a, v)) \subseteq {<<caller, a>>}
           /\ Raised(this, increase_allowance(this, caller, a, v))
                  \subseteq {<<caller, a>>}
           /\ Raised(this, decrease_allowance(this, caller, a, v)) = {}
           /\ Raised(this, transfer(this, caller, a, v)) = {}
    /\ \A caller \in Address, from \in Address, to \in Address, v \in u128 :
           Raised(this, transfer_from(this, caller, from, to, v)) = {}

\* A storage where the owner raises an allowance already granted by approve
\* and by increase_allowance, and the spender's own approve,
\* increase_allowance and transfer_from leave it as it is or lower it.
C22_Witness ==
    \E o \in Address, s \in Address, to \in Address, v \in u128 :
        /\ o # s /\ to # o
        /\ allowance(this, o, s) > 0
        /\ v > allowance(this, o, s)
        /\ Raised(this, approve(this, o, s, v)) = {<<o, s>>}
        /\ Raised(this, increase_allowance(this, o, s, 1)) = {<<o, s>>}
        /\ allowance(approve(this, s, o, v).self, o, s) = allowance(this, o, s)
        /\ allowance(increase_allowance(this, s, o, 1).self, o, s) =
               allowance(this, o, s)
        /\ allowance(transfer_from(this, s, o, to, 1).self, o, s) <
               allowance(this, o, s)
====
